---- MODULE Spec2Model ----
(***************************************************************************)
(* Two-pass assemblers of os_in_1000: src/mips_assembler.py (MIPS) and     *)
(* src/riscv_assembler.py (RISC-V).                                        *)
(*                                                                         *)
(* A source program is a sequence of statements.  A statement is a record  *)
(*   lab  : the label defined on the line ("" when there is none)          *)
(*   op   : the mnemonic, lower-cased ("" when the line has no instruction)*)
(*   regs : the register operand tokens, '$' and ',' already stripped      *)
(*   imm  : the value of the immediate literal (0 when there is none)      *)
(*   tgt  : the branch/jump target token ("" when there is none)           *)
(* Machine words are Python integers, which are unbounded and behave as    *)
(* two's complement numbers with an infinite sign extension.  They are     *)
(* modelled as [s, b]: b holds the low bits, least significant first, and  *)
(* every bit above them equals s.                                          *)
(***************************************************************************)
EXTENDS Integers, Sequences, FiniteSets, TLC

VARIABLES arch, lines, idx, code_lines, labels, pc, phase, i, binary_output, coe

vars == <<arch, lines, idx, code_lines, labels, pc, phase, i, binary_output, coe>>

(***************************************************************************)
(* Python integers and their bitwise operators                             *)
(***************************************************************************)
RECURSIVE Pow2(_)
Pow2(n) == IF n = 0 THEN 1 ELSE 2 * Pow2(n - 1)

RECURSIVE Norm(_, _)
Norm(s, b) ==
  IF b # <<>> /\ b[Len(b)] = s THEN Norm(s, SubSeq(b, 1, Len(b) - 1))
  ELSE [s |-> s, b |-> b]

\* the Python integer with the value of the machine integer v
RECURSIVE PyInt(_)
PyInt(v) ==
  IF v = 0 THEN [s |-> 0, b |-> <<>>]
  ELSE IF v = -1 THEN [s |-> 1, b |-> <<>>]
  ELSE LET r == PyInt(v \div 2) IN [s |-> r.s, b |-> <<v % 2>> \o r.b]

BitAt(x, k) == IF k < Len(x.b) THEN x.b[k + 1] ELSE x.s

Max(m, n) == IF m >= n THEN m ELSE n

\* x << n
Shl(x, n) == IF x.s = 0 /\ x.b = <<>> THEN x
             ELSE [s |-> x.s, b |-> [k \in 1..(Len(x.b) + n) |-> IF k <= n THEN 0 ELSE x.b[k - n]]]

\* x | y
BitOr(x, y) ==
  Norm(Max(x.s, y.s),
       [k \in 1..Max(Len(x.b), Len(y.b)) |-> Max(BitAt(x, k - 1), BitAt(y, k - 1))])

\* x & ((1 << n) - 1)
MaskLow(x, n) == Norm(0, [k \in 1..n |-> BitAt(x, k - 1)])

\* (x >> low) & ((1 << w) - 1) as a machine integer, for w small
RECURSIVE FieldOf(_, _, _)
FieldOf(x, low, w) ==
  IF w = 0 THEN 0 ELSE BitAt(x, low) + 2 * FieldOf(x, low + 1, w - 1)

\* src/riscv_assembler.py get_bits, on a machine integer
get_bits(val, high, low) == (val \div Pow2(low)) % Pow2(high - low + 1)

\* the number of characters of format(x, '08x')
HexDigits(n) == (n + 3) \div 4
Negate(x) ==
  \* -x == ~x + 1, computed on the low bits
  LET n == Len(x.b) + 1
      inv == [k \in 1..n |-> 1 - BitAt(x, k - 1)]
      AddOne[k \in 0..n] ==
        IF k = 0 THEN <<>>
        ELSE LET carry == \A j \in 1..(k - 1) : inv[j] = 1
             IN  Append(AddOne[k - 1], IF carry THEN 1 - inv[k] ELSE inv[k])
  IN  Norm(1 - x.s, AddOne[n])

format_08x_len(x) ==
  IF x.s = 0 THEN Max(8, HexDigits(Len(x.b)))
  ELSE 1 + Max(7, HexDigits(Len(Negate(x).b)))

(***************************************************************************)
(* src/mips_assembler.py: tables and operand parsing                       *)
(***************************************************************************)
REGISTERS ==
  "0" :> 0 @@ "zero" :> 0 @@ "at" :> 1 @@ "v0" :> 2 @@ "v1" :> 3 @@ "a0" :> 4 @@
  "a1" :> 5 @@ "a2" :> 6 @@ "a3" :> 7 @@ "t0" :> 8 @@ "t1" :> 9 @@ "t2" :> 10 @@
  "t3" :> 11 @@ "t4" :> 12 @@ "t5" :> 13 @@ "t6" :> 14 @@ "t7" :> 15 @@ "s0" :> 16 @@
  "s1" :> 17 @@ "s2" :> 18 @@ "s3" :> 19 @@ "s4" :> 20 @@ "s5" :> 21 @@ "s6" :> 22 @@
  "s7" :> 23 @@ "t8" :> 24 @@ "t9" :> 25 @@ "k0" :> 26 @@ "k1" :> 27 @@ "gp" :> 28 @@
  "sp" :> 29 @@ "fp" :> 30 @@ "ra" :> 31

R_TYPE ==
  "add" :> 32 @@ "sub" :> 34 @@ "and" :> 36 @@ "or" :> 37 @@ "xor" :> 38 @@ "nor" :> 39 @@
  "slt" :> 42 @@ "sll" :> 0 @@ "srl" :> 2 @@ "sra" :> 3 @@ "jr" :> 8 @@ "jalr" :> 9

MIPS_OPCODES ==
  "addi" :> 8 @@ "slti" :> 10 @@ "andi" :> 12 @@ "ori" :> 13 @@ "xori" :> 14 @@ "lui" :> 15 @@
  "beq" :> 4 @@ "blez" :> 6 @@ "bltz" :> 1 @@ "j" :> 2 @@ "jal" :> 3 @@ "lb" :> 32 @@
  "lh" :> 33 @@ "lw" :> 35 @@ "sb" :> 40 @@ "sh" :> 41 @@ "sw" :> 43

\* Python's int() on the operand texts the programs below use; any other
\* text raises ValueError
int_literal ==
  "0" :> 0 @@ "8" :> 8 @@ "32" :> 32 @@ "2048" :> 2048 @@ "-1" :> -1 @@
  "4094" :> 4094 @@ "-4096" :> -4096 @@ "1364" :> 1364 @@
  "1048574" :> 1048574 @@ "-1048576" :> -1048576 @@ "699050" :> 699050

IsNumeric(t) == t \in DOMAIN int_literal

\* parse_reg: a table name, else int(); ok = FALSE stands for the ValueError
mips_parse_reg(reg_str) ==
  IF reg_str \in DOMAIN REGISTERS THEN [ok |-> TRUE, val |-> REGISTERS[reg_str]]
  ELSE IF IsNumeric(reg_str) THEN [ok |-> TRUE, val |-> int_literal[reg_str]]
  ELSE [ok |-> FALSE, val |-> 0]

(***************************************************************************)
(* src/riscv_assembler.py: tables and operand parsing                      *)
(***************************************************************************)
REGS ==
  "zero" :> 0 @@ "ra" :> 1 @@ "sp" :> 2 @@ "gp" :> 3 @@ "tp" :> 4 @@ "t0" :> 5 @@
  "t1" :> 6 @@ "t2" :> 7 @@ "s0" :> 8 @@ "fp" :> 8 @@ "s1" :> 9 @@ "a0" :> 10 @@
  "a1" :> 11 @@ "a2" :> 12 @@ "a3" :> 13 @@ "a4" :> 14 @@ "a5" :> 15 @@ "a6" :> 16 @@
  "a7" :> 17 @@ "s2" :> 18 @@ "s3" :> 19 @@ "s4" :> 20 @@ "s5" :> 21 @@ "s6" :> 22 @@
  "s7" :> 23 @@ "s8" :> 24 @@ "s9" :> 25 @@ "s10" :> 26 @@ "s11" :> 27 @@ "t3" :> 28 @@
  "t4" :> 29 @@ "t5" :> 30 @@ "t6" :> 31 @@ "x0" :> 0 @@ "x1" :> 1 @@ "x2" :> 2 @@
  "x3" :> 3 @@ "x4" :> 4 @@ "x5" :> 5 @@ "x6" :> 6 @@ "x7" :> 7 @@ "x8" :> 8 @@
  "x9" :> 9 @@ "x10" :> 10 @@ "x11" :> 11 @@ "x12" :> 12 @@ "x13" :> 13 @@ "x14" :> 14 @@
  "x15" :> 15 @@ "x16" :> 16 @@ "x17" :> 17 @@ "x18" :> 18 @@ "x19" :> 19 @@ "x20" :> 20 @@
  "x21" :> 21 @@ "x22" :> 22 @@ "x23" :> 23 @@ "x24" :> 24 @@ "x25" :> 25 @@ "x26" :> 26 @@
  "x27" :> 27 @@ "x28" :> 28 @@ "x29" :> 29 @@ "x30" :> 30 @@ "x31" :> 31

RV_OPCODES ==
  "add" :> [op |-> 51, f3 |-> 0, f7 |-> 0] @@ "sub" :> [op |-> 51, f3 |-> 0, f7 |-> 32] @@
  "sll" :> [op |-> 51, f3 |-> 1, f7 |-> 0] @@ "slt" :> [op |-> 51, f3 |-> 2, f7 |-> 0] @@
  "sltu" :> [op |-> 51, f3 |-> 3, f7 |-> 0] @@ "xor" :> [op |-> 51, f3 |-> 4, f7 |-> 0] @@
  "srl" :> [op |-> 51, f3 |-> 5, f7 |-> 0] @@ "sra" :> [op |-> 51, f3 |-> 5, f7 |-> 32] @@
  "or" :> [op |-> 51, f3 |-> 6, f7 |-> 0] @@ "and" :> [op |-> 51, f3 |-> 7, f7 |-> 0] @@
  "addi" :> [op |-> 19, f3 |-> 0, f7 |-> 0] @@ "slti" :> [op |-> 19, f3 |-> 2, f7 |-> 0] @@
  "andi" :> [op |-> 19, f3 |-> 7, f7 |-> 0] @@ "ori" :> [op |-> 19, f3 |-> 6, f7 |-> 0] @@
  "xori" :> [op |-> 19, f3 |-> 4, f7 |-> 0] @@ "lw" :> [op |-> 3, f3 |-> 2, f7 |-> 0] @@
  "lb" :> [op |-> 3, f3 |-> 0, f7 |-> 0] @@ "lh" :> [op |-> 3, f3 |-> 1, f7 |-> 0] @@
  "jalr" :> [op |-> 103, f3 |-> 0, f7 |-> 0] @@ "sw" :> [op |-> 35, f3 |-> 2, f7 |-> 0] @@
  "sb" :> [op |-> 35, f3 |-> 0, f7 |-> 0] @@ "sh" :> [op |-> 35, f3 |-> 1, f7 |-> 0] @@
  "beq" :> [op |-> 99, f3 |-> 0, f7 |-> 0] @@ "bne" :> [op |-> 99, f3 |-> 1, f7 |-> 0] @@
  "blt" :> [op |-> 99, f3 |-> 4, f7 |-> 0] @@ "bge" :> [op |-> 99, f3 |-> 5, f7 |-> 0] @@
  "lui" :> [op |-> 55, f3 |-> 0, f7 |-> 0] @@ "auipc" :> [op |-> 23, f3 |-> 0, f7 |-> 0] @@
  "jal" :> [op |-> 111, f3 |-> 0, f7 |-> 0]

\* s.replace('x', '') on the register tokens the programs below use
RemoveX(s) == IF s = "x32" THEN "32" ELSE s

rv_parse_reg(s) ==
  IF s \in DOMAIN REGS THEN [ok |-> TRUE, val |-> REGS[s]]
  ELSE IF IsNumeric(RemoveX(s)) THEN [ok |-> TRUE, val |-> int_literal[RemoveX(s)]]
  ELSE [ok |-> FALSE, val |-> 0]

\* an unknown target name taken for address 0
ResolveTargetOrZero(t, lbls) ==
  IF t \in DOMAIN lbls THEN [ok |-> TRUE, val |-> lbls[t]]
  ELSE IF IsNumeric(t) THEN [ok |-> TRUE, val |-> int_literal[t]]
  ELSE [ok |-> TRUE, val |-> 0]

\* labels[t] if t in labels else int(t, 0)
ResolveTarget(t, lbls) ==
  IF t \in DOMAIN lbls THEN [ok |-> TRUE, val |-> lbls[t]]
  ELSE IF IsNumeric(t) THEN [ok |-> TRUE, val |-> int_literal[t]]
  ELSE [ok |-> FALSE, val |-> 0]

(***************************************************************************)
(* Pass 1: pseudo-instruction expansion                                    *)
(***************************************************************************)
Instr(op, regs, imm, tgt) == [op |-> op, regs |-> regs, imm |-> imm, tgt |-> tgt]

\* ok = FALSE stands for the ValueError of "rd, rs = args.split(',', 1)" on
\* an operand text without a comma, which nothing catches
Expanded(out) == [ok |-> TRUE, out |-> out]
ExpandError == [ok |-> FALSE, out |-> <<>>]

\* li with the range test of an unsigned 16-bit immediate
mips_li_unsigned(reg, val) ==
  IF -32768 <= val /\ val <= 65535
  THEN <<Instr("addi", <<reg, "0">>, val, "")>>
  ELSE LET upper == (val \div 65536) % 65536
           lower == val % 65536
       IN  <<Instr("lui", <<reg>>, upper, "")>>
           \o (IF lower # 0 THEN <<Instr("ori", <<reg, reg>>, lower, "")>> ELSE <<>>)

\* MIPSAssembler.preprocess, the expansion of one statement
mips_li(reg, val) ==
  IF -32768 <= val /\ val <= 32767
  THEN <<Instr("addi", <<reg, "0">>, val, "")>>
  ELSE LET upper == (val \div 65536) % 65536
           lower == val % 65536
       IN  <<Instr("lui", <<reg>>, upper, "")>>
           \o (IF lower # 0 THEN <<Instr("ori", <<reg, reg>>, lower, "")>> ELSE <<>>)

mips_expand(st) ==
  CASE st.op = "nop" -> Expanded(<<Instr("addi", <<"0", "0">>, 0, "")>>)
    [] st.op = "li"  -> IF Len(st.regs) < 1 THEN ExpandError
                        ELSE Expanded(mips_li(st.regs[1], st.imm))
    [] st.op = "mv"  -> IF Len(st.regs) < 2 THEN ExpandError
                        ELSE Expanded(<<Instr("addi", <<st.regs[1], st.regs[2]>>, 0, "")>>)
    [] st.op = "not" -> IF Len(st.regs) < 2 THEN ExpandError
                        ELSE Expanded(<<Instr("nor", <<st.regs[1], st.regs[2], "0">>, 0, "")>>)
    [] st.op = "neg" -> IF Len(st.regs) < 2 THEN ExpandError
                        ELSE Expanded(<<Instr("sub", <<st.regs[1], "0", st.regs[2]>>, 0, "")>>)
    [] OTHER         -> Expanded(<<Instr(st.op, st.regs, st.imm, st.tgt)>>)

\* RISCVAssembler.assemble pass 1, the expansion of one statement
rv_li(rd, imm) ==
  LET upper == (imm + 2048) \div 4096
      lower == imm % 4096
  IN  <<Instr("lui", <<rd>>, upper, ""), Instr("addi", <<rd, rd>>, lower, "")>>

rv_expand(st) ==
  CASE st.op = "nop" -> Expanded(<<Instr("addi", <<"x0", "x0">>, 0, "")>>)
    [] st.op = "li"  -> IF Len(st.regs) < 1 THEN ExpandError
                        ELSE Expanded(rv_li(st.regs[1], st.imm))
    [] st.op = "mv"  -> IF Len(st.regs) < 2 THEN ExpandError
                        ELSE Expanded(<<Instr("addi", <<st.regs[1], st.regs[2]>>, 0, "")>>)
    [] st.op = "not" -> IF Len(st.regs) < 2 THEN ExpandError
                        ELSE Expanded(<<Instr("xori", <<st.regs[1], st.regs[2]>>, -1, "")>>)
    [] st.op = "neg" -> IF Len(st.regs) < 2 THEN ExpandError
                        ELSE Expanded(<<Instr("sub", <<st.regs[1], "x0", st.regs[2]>>, 0, "")>>)
    [] st.op = "j"   -> Expanded(<<Instr("jal", <<"x0">>, 0, st.tgt)>>)
    [] OTHER         -> Expanded(<<Instr(st.op, st.regs, st.imm, st.tgt)>>)

Expand(a, st) == IF a = "mips" THEN mips_expand(st) ELSE rv_expand(st)

\* a label table that holds the instruction index in both assemblers
LabelValueWordIndex(a, clean, addr) == Len(clean)

\* the value a label definition records: len(clean_lines) in the MIPS
\* assembler, the running byte address pc in the RISC-V assembler
LabelValue(a, clean, addr) == IF a = "mips" THEN Len(clean) ELSE addr

Bind(lbls, name, val) ==
  [n \in DOMAIN lbls \cup {name} |-> IF n = name THEN val ELSE lbls[n]]

(***************************************************************************)
(* Pass 2: encoding of one canonical instruction                           *)
(***************************************************************************)
RECURSIVE OrAll(_)
OrAll(parts) == IF parts = <<>> THEN PyInt(0) ELSE BitOr(Head(parts), OrAll(Tail(parts)))

\* ok = FALSE stands for the exception (KeyError, ValueError, IndexError,
\* AttributeError) the encoding of the instruction raises
Encoded(w) == [ok |-> TRUE, word |-> w]
EncodeError == [ok |-> FALSE, word |-> PyInt(0)]

\* every register token parses
RegsOK(a, regs, n) ==
  /\ Len(regs) >= n
  /\ \A k \in 1..n : IF a = "mips" THEN mips_parse_reg(regs[k]).ok ELSE rv_parse_reg(regs[k]).ok

\* the operand tokens of the programs below that the regular expression \w+
\* does not match
NonWord == {"", "-1", "-4096", "-1048576"}

\* the offset taken from the branch itself, not from the next instruction
mips_offset_from_branch(target, i0) == target - i0

\* the word offset of a MIPS branch at index i0
mips_offset(target, i0) == target - (i0 + 1)

\* the byte offset of a RISC-V branch or jal at byte address addr
rv_offset(target, addr) == target - addr

\* MIPSAssembler.assemble, the body of the loop for the instruction at index i0
mips_encode(ins, i0, lbls) ==
  LET R(k) == mips_parse_reg(ins.regs[k]).val
      F(v, sh) == Shl(PyInt(v), sh)
      tg == ResolveTarget(ins.tgt, lbls)
  IN
  IF ins.op \in DOMAIN R_TYPE THEN
    LET funct == R_TYPE[ins.op] IN
    IF ins.op \in {"sll", "srl", "sra"} THEN
      IF ~RegsOK("mips", ins.regs, 2) THEN EncodeError
      ELSE Encoded(OrAll(<<F(0, 26), F(0, 21), F(R(2), 16), F(R(1), 11), F(ins.imm, 6), PyInt(funct)>>))
    ELSE IF ins.op = "jr" THEN
      IF ~RegsOK("mips", ins.regs, 1) THEN EncodeError
      ELSE Encoded(OrAll(<<F(0, 26), F(R(1), 21), F(0, 16), F(0, 11), F(0, 6), PyInt(funct)>>))
    ELSE IF ins.op = "jalr" THEN
      IF Len(ins.regs) > 1 THEN
        IF ~RegsOK("mips", ins.regs, 2) THEN EncodeError
        ELSE Encoded(OrAll(<<F(0, 26), F(R(2), 21), F(0, 16), F(R(1), 11), F(0, 6), PyInt(funct)>>))
      ELSE
        IF ~RegsOK("mips", ins.regs, 1) THEN EncodeError
        ELSE Encoded(OrAll(<<F(0, 26), F(R(1), 21), F(0, 16), F(31, 11), F(0, 6), PyInt(funct)>>))
    ELSE
      IF ~RegsOK("mips", ins.regs, 3) THEN EncodeError
      ELSE Encoded(OrAll(<<F(0, 26), F(R(2), 21), F(R(3), 16), F(R(1), 11), F(0, 6), PyInt(funct)>>))
  ELSE IF ins.op \in {"j", "jal"} THEN
    IF ~tg.ok THEN EncodeError
    ELSE Encoded(BitOr(F(MIPS_OPCODES[ins.op], 26), MaskLow(PyInt(tg.val), 26)))
  ELSE IF ins.op \in DOMAIN MIPS_OPCODES THEN
    LET opcode == MIPS_OPCODES[ins.op] IN
    IF ins.op = "beq" THEN
      IF ~RegsOK("mips", ins.regs, 2) \/ ~tg.ok THEN EncodeError
      ELSE LET offset == mips_offset(tg.val, i0)
           IN  Encoded(OrAll(<<F(opcode, 26), F(R(1), 21), F(R(2), 16), MaskLow(PyInt(offset), 16)>>))
    ELSE IF ins.op \in {"blez", "bltz"} THEN
      IF ~RegsOK("mips", ins.regs, 1) \/ ~tg.ok THEN EncodeError
      ELSE LET offset == mips_offset(tg.val, i0)
           IN  Encoded(OrAll(<<F(opcode, 26), F(R(1), 21), F(0, 16), MaskLow(PyInt(offset), 16)>>))
    ELSE IF ins.op \in {"lw", "sw", "lb", "sb", "lh", "sh"} THEN
      IF ~RegsOK("mips", ins.regs, 2) \/ ins.regs[2] \in NonWord THEN EncodeError
      ELSE Encoded(OrAll(<<F(opcode, 26), F(R(2), 21), F(R(1), 16), MaskLow(PyInt(ins.imm), 16)>>))
    ELSE IF ins.op = "lui" THEN
      IF ~RegsOK("mips", ins.regs, 1) THEN EncodeError
      ELSE Encoded(OrAll(<<F(opcode, 26), F(0, 21), F(R(1), 16), MaskLow(PyInt(ins.imm), 16)>>))
    ELSE
      IF ~RegsOK("mips", ins.regs, 2) THEN EncodeError
      ELSE Encoded(OrAll(<<F(opcode, 26), F(R(2), 21), F(R(1), 16), MaskLow(PyInt(ins.imm), 16)>>))
  ELSE Encoded(PyInt(0))

\* RISCVAssembler.assemble pass 2, the body of the loop for the instruction
\* at byte address addr
rv_encode(ins, addr, lbls) ==
  LET R(k) == rv_parse_reg(ins.regs[k]).val
      F(v, sh) == Shl(PyInt(v), sh)
      tg == ResolveTarget(ins.tgt, lbls)
  IN
  IF ins.op \notin DOMAIN RV_OPCODES THEN EncodeError
  ELSE
  LET info == RV_OPCODES[ins.op] IN
  IF info.op = 51 THEN
    IF ~RegsOK("riscv", ins.regs, 3) THEN EncodeError
    ELSE Encoded(MaskLow(OrAll(<<F(info.f7, 25), F(R(3), 20), F(R(2), 15), F(info.f3, 12),
                                 F(R(1), 7), PyInt(info.op)>>), 32))
  ELSE IF info.op \in {19, 3, 103} THEN
    IF ~RegsOK("riscv", ins.regs, 2) THEN EncodeError
    ELSE Encoded(MaskLow(OrAll(<<Shl(MaskLow(PyInt(ins.imm), 12), 20), F(R(2), 15), F(info.f3, 12),
                                 F(R(1), 7), PyInt(info.op)>>), 32))
  ELSE IF info.op = 35 THEN
    IF ~RegsOK("riscv", ins.regs, 2) THEN EncodeError
    ELSE LET imm_11_5 == get_bits(ins.imm, 11, 5)
             imm_4_0 == get_bits(ins.imm, 4, 0)
         IN  Encoded(MaskLow(OrAll(<<F(imm_11_5, 25), F(R(1), 20), F(R(2), 15), F(info.f3, 12),
                                     F(imm_4_0, 7), PyInt(info.op)>>), 32))
  ELSE IF info.op = 99 THEN
    IF ~RegsOK("riscv", ins.regs, 2) \/ ~tg.ok THEN EncodeError
    ELSE LET off == rv_offset(tg.val, addr)
             b12 == get_bits(off, 12, 12)
             b11 == get_bits(off, 11, 11)
             b10_5 == get_bits(off, 10, 5)
             b4_1 == get_bits(off, 4, 1)
         IN  Encoded(MaskLow(OrAll(<<F(b12, 31), F(b10_5, 25), F(R(2), 20), F(R(1), 15),
                                     F(info.f3, 12), F(b4_1, 8), F(b11, 7), PyInt(info.op)>>), 32))
  ELSE IF info.op \in {55, 23} THEN
    IF ~RegsOK("riscv", ins.regs, 1) THEN EncodeError
    ELSE Encoded(MaskLow(OrAll(<<Shl(MaskLow(PyInt(ins.imm), 20), 12), F(R(1), 7), PyInt(info.op)>>), 32))
  ELSE IF info.op = 111 THEN
    IF ~RegsOK("riscv", ins.regs, 1) \/ ~tg.ok THEN EncodeError
    ELSE LET off == rv_offset(tg.val, addr)
             j20 == get_bits(off, 20, 20)
             j19_12 == get_bits(off, 19, 12)
             j11 == get_bits(off, 11, 11)
             j10_1 == get_bits(off, 10, 1)
         IN  Encoded(MaskLow(OrAll(<<F(j20, 31), F(j10_1, 21), F(j11, 20), F(j19_12, 12),
                                     F(R(1), 7), PyInt(info.op)>>), 32))
  ELSE Encoded(PyInt(0))

\* the word (or the exception) of the instruction at 0-based index i0
Encode(a, ins, i0, addr, lbls) ==
  IF a = "mips" THEN mips_encode(ins, i0, lbls) ELSE rv_encode(ins, addr, lbls)

(***************************************************************************)
(* Source programs                                                         *)
(***************************************************************************)
St(lab, op, regs, imm, tgt) ==
  [lab |-> lab, op |-> op, regs |-> regs, imm |-> imm, tgt |-> tgt]

\* the longest program with labels, and the longest program without
MaxLines == 3
MaxEncLines == 1

\* statements with labels, forward and backward references, a duplicated
\* and an undefined label, multi-instruction li, an unknown mnemonic
MipsLabelled ==
  { St("a", "", <<>>, 0, ""),
    St("b", "", <<>>, 0, ""),
    St("a", "nop", <<>>, 0, ""),
    St("", "li", <<"t0">>, 100000, ""),
    St("b", "li", <<"t0">>, 65536, ""),
    St("", "beq", <<"t0", "t1">>, 0, "a"),
    St("", "blez", <<"t0">>, 0, "b"),
    St("", "j", <<>>, 0, "a"),
    St("b", "jal", <<>>, 0, "b"),
    St("", "foo", <<"t0">>, 0, ""),
    St("a", "bltz", <<"-1">>, 0, "b") }

RvLabelled ==
  { St("a", "", <<>>, 0, ""),
    St("b", "", <<>>, 0, ""),
    St("a", "nop", <<>>, 0, ""),
    St("", "li", <<"t0">>, 100000, ""),
    St("b", "mv", <<"t0", "t1">>, 0, ""),
    St("", "beq", <<"t0", "t1">>, 0, "a"),
    St("", "bne", <<"x5", "32">>, 0, "b"),
    St("", "j", <<>>, 0, "a"),
    St("b", "jal", <<"ra">>, 0, "b"),
    St("", "foo", <<"t0">>, 0, ""),
    St("a", "bge", <<"a0", "zero">>, 0, "b") }

\* statements without labels: every mnemonic of the tables, register
\* tokens by name and by number, in and out of range, immediates in and out
\* of their field, numeric targets, tokens that do not parse
MipsTriples == {<<"0", "2048", "ra">>, <<"-1", "t0", "8">>, <<"t0", "bogus", "t1">>}
MipsPairs == {<<"2048", "t1">>, <<"t0", "-1">>, <<"t0">>}
MipsSingles == {<<"ra">>, <<"2048">>, <<"-1">>, <<"bogus">>}
MipsImms == {0, 5, -1, 40000, 65536}
MipsLiImms == {5, -32768, 32767, 32768, -32769, 65536, 100000, -65536, 2147483647, -2147483647}
MipsTargets == {"8", "-1", "nowhere"}

MipsPlain ==
  { St("", op, <<"t0", "t1", "t2">>, 0, "") : op \in {"add", "sub", "and", "or", "xor", "nor", "slt"} }
  \cup { St("", "add", r, 0, "") : r \in MipsTriples }
  \cup { St("", op, <<"t0", "sp">>, 31, "") : op \in {"sll", "srl", "sra"} }
  \cup { St("", "sll", <<"t0", "sp">>, sa, "") : sa \in {32, -1} }
  \cup { St("", "sll", r, 0, "") : r \in MipsPairs }
  \cup { St("", "jr", r, 0, "") : r \in MipsSingles }
  \cup { St("", "jalr", r, 0, "") : r \in {<<"ra">>, <<"t0", "sp">>, <<"2048", "t1">>, <<"bogus">>} }
  \cup { St("", op, <<>>, 0, t) : op \in {"j", "jal"}, t \in MipsTargets }
  \cup { St("", "beq", <<"t0", "sp">>, 0, t) : t \in MipsTargets }
  \cup { St("", "beq", r, 0, "8") : r \in MipsPairs }
  \cup { St("", op, <<"ra">>, 0, t) : op \in {"blez", "bltz"}, t \in MipsTargets }
  \cup { St("", "blez", r, 0, "8") : r \in MipsSingles }
  \cup { St("", op, <<"t0", "sp">>, 4, "") : op \in {"lw", "sw", "lb", "sb", "lh", "sh"} }
  \cup { St("", "lw", r, -4, "") : r \in MipsPairs }
  \cup { St("", "lui", <<"ra">>, m, "") : m \in MipsImms }
  \cup { St("", "lui", r, 1, "") : r \in MipsSingles }
  \cup { St("", op, <<"t0", "sp">>, 5, "") : op \in {"addi", "slti", "andi", "ori", "xori"} }
  \cup { St("", "addi", <<"t0", "sp">>, m, "") : m \in MipsImms }
  \cup { St("", "addi", r, 5, "") : r \in MipsPairs }
  \cup { St("", "li", <<"t0">>, m, "") : m \in MipsLiImms }
  \cup { St("", op, r, 0, "") : op \in {"mv", "not", "neg"}, r \in {<<"t0", "t1">>, <<"t0">>} }
  \cup { St("", "nop", <<>>, 0, ""), St("", "bne", <<"t0", "t1">>, 0, "8") }

RvTriples == {<<"zero", "32", "t6">>, <<"-1", "a0", "8">>, <<"a0", "bogus", "a1">>}
RvPairs == {<<"x32", "t1">>, <<"t0", "-1">>, <<"t0">>}
RvSingles == {<<"ra">>, <<"32">>, <<"-1">>, <<"bogus">>}
RvImms == {0, 5, -1, 2047, 4096}
RvLiImms == {5, -1, 2047, 2048, -2049, 4096, 100000, -100000}
RvTargets == {"8", "4094", "-4096", "1364", "1048574", "-1048576", "699050", "nowhere"}

RvPlain ==
  { St("", op, <<"x1", "x2", "x3">>, 0, "") :
      op \in {"add", "sub", "sll", "slt", "sltu", "xor", "srl", "sra", "or", "and"} }
  \cup { St("", "add", r, 0, "") : r \in RvTriples }
  \cup { St("", op, <<"a0", "sp">>, 5, "") :
           op \in {"addi", "slti", "andi", "ori", "xori", "lw", "lb", "lh", "jalr", "sw", "sb", "sh"} }
  \cup { St("", op, <<"a0", "sp">>, m, "") : op \in {"addi", "sw"}, m \in RvImms }
  \cup { St("", op, r, 5, "") : op \in {"addi", "sw"}, r \in RvPairs }
  \cup { St("", op, <<"t0", "t1">>, 0, "8") : op \in {"beq", "bne", "blt", "bge"} }
  \cup { St("", "beq", <<"t0", "t1">>, 0, t) : t \in RvTargets }
  \cup { St("", "beq", r, 0, "8") : r \in RvPairs }
  \cup { St("", op, <<"ra">>, m, "") : op \in {"lui", "auipc"}, m \in {0, 1, 1048575, 1048576, -1} }
  \cup { St("", "lui", r, 1, "") : r \in RvSingles }
  \cup { St("", "jal", <<"ra">>, 0, t) : t \in RvTargets }
  \cup { St("", "jal", r, 0, "8") : r \in RvSingles \cup {<<>>} }
  \cup { St("", "j", <<>>, 0, t) : t \in RvTargets }
  \cup { St("", "li", <<"t0">>, m, "") : m \in RvLiImms }
  \cup { St("", op, r, 0, "") : op \in {"mv", "not", "neg"}, r \in {<<"t0", "t1">>, <<"t0">>} }
  \cup { St("", "nop", <<>>, 0, ""), St("", "blez", <<"t0">>, 0, "8") }

SeqsUpTo(S, n) == UNION {[1..k -> S] : k \in 0..n}

Programs(a) ==
  IF a = "mips" THEN SeqsUpTo(MipsLabelled, MaxLines) \cup SeqsUpTo(MipsPlain, MaxEncLines)
  ELSE SeqsUpTo(RvLabelled, MaxLines) \cup SeqsUpTo(RvPlain, MaxEncLines)

(***************************************************************************)
(* The assembly run                                                        *)
(***************************************************************************)
NoFile == [exists |-> FALSE, words |-> <<>>]

Init ==
  /\ arch \in {"mips", "riscv"}
  /\ lines \in Programs(arch)
  /\ idx = 0
  /\ code_lines = <<>>
  /\ labels = [n \in {} |-> 0]
  /\ pc = 0
  /\ phase = "pass1"
  /\ i = 0
  /\ binary_output = <<>>
  /\ coe = NoFile

\* pass 1 left one line early
Pass1CompleteEarly(n, src) == n >= Len(src) - 1

\* pass 1 has consumed every source line
Pass1Complete(n, src) == n = Len(src)

\* one iteration of the pass-1 loop: record the label, expand the statement
PreprocessLine ==
  /\ phase = "pass1"
  /\ ~Pass1Complete(idx, lines)
  /\ LET st == lines[idx + 1]
         bound == IF st.lab # "" THEN Bind(labels, st.lab, LabelValue(arch, code_lines, pc))
                  ELSE labels
         e == Expand(arch, st)
     IN  /\ labels' = bound
         /\ idx' = idx + 1
         /\ IF st.op = "" THEN UNCHANGED <<code_lines, pc, phase>>
            ELSE IF ~e.ok THEN phase' = "error" /\ UNCHANGED <<code_lines, pc>>
            ELSE /\ code_lines' = code_lines \o e.out
                 /\ pc' = IF arch = "riscv" THEN pc + 4 * Len(e.out) ELSE pc
                 /\ UNCHANGED phase
  /\ UNCHANGED <<arch, lines, i, binary_output, coe>>

\* pass 1 is over: binary_output = [], pc = 0, the pass-2 loop starts
StartPass2 ==
  /\ phase = "pass1"
  /\ Pass1Complete(idx, lines)
  /\ phase' = "pass2"
  /\ i' = 0
  /\ pc' = 0
  /\ binary_output' = <<>>
  /\ UNCHANGED <<arch, lines, idx, code_lines, labels, coe>>

\* the word list built in reverse
EmitFront(out, w) == <<w>> \o out

Emit(out, w) == Append(out, w)

\* one iteration of the pass-2 loop: encode the instruction and append the
\* word; an exception ends the process (sys.exit(1) in the MIPS assembler,
\* the uncaught exception in the RISC-V assembler)
EncodeInstr ==
  /\ phase = "pass2"
  /\ i < Len(code_lines)
  /\ LET r == Encode(arch, code_lines[i + 1], i, pc, labels)
     IN  IF r.ok
         THEN /\ binary_output' = Emit(binary_output, r.word)
              /\ i' = i + 1
              /\ pc' = IF arch = "riscv" THEN pc + 4 ELSE pc
              /\ UNCHANGED phase
         ELSE /\ phase' = "error"
              /\ UNCHANGED <<binary_output, i, pc>>
  /\ UNCHANGED <<arch, lines, idx, code_lines, labels, coe>>

\* assemble returns the word list
Return ==
  /\ phase = "pass2"
  /\ i = Len(code_lines)
  /\ phase' = "returned"
  /\ UNCHANGED <<arch, lines, idx, code_lines, labels, pc, i, binary_output, coe>>

\* the main program hands the returned list to write_coe
WriteCoe ==
  /\ phase = "returned"
  /\ coe' = [exists |-> TRUE, words |-> binary_output]
  /\ phase' = "written"
  /\ UNCHANGED <<arch, lines, idx, code_lines, labels, pc, i, binary_output>>

Next == PreprocessLine \/ StartPass2 \/ EncodeInstr \/ Return \/ WriteCoe

Spec == Init /\ [][Next]_vars

(***************************************************************************)
(* What the properties speak about                                         *)
(***************************************************************************)
\* the number of canonical instructions a statement stands for
ExpansionCount(a, st) ==
  IF st.op = "" THEN 0
  ELSE IF st.op # "li" THEN 1
  ELSE IF a = "riscv" THEN 2
  ELSE IF -32768 <= st.imm /\ st.imm <= 32767 THEN 1
  ELSE IF st.imm % 65536 = 0 THEN 1 ELSE 2

\* the number of canonical instructions of the first n statements
RECURSIVE CanonCount(_, _, _)
CanonCount(a, src, n) ==
  IF n = 0 THEN 0 ELSE CanonCount(a, src, n - 1) + ExpansionCount(a, src[n])

Defined(src, n) == {src[k].lab : k \in 1..n} \ {""}

\* the last of the first n statements that defines the label
LastDef(src, n, name) ==
  CHOOSE k \in 1..n : src[k].lab = name /\ \A m \in (k + 1)..n : src[m].lab # name

\* the number of canonical instructions before the definition of the label
InstrsBefore(a, src, n, name) == CanonCount(a, src, LastDef(src, n, name) - 1)

Assembled == phase \in {"returned", "written"}

MipsBranches == {"beq", "blez", "bltz"}
RvBranches == {"beq", "bne", "blt", "bge"}
TargetOps(a) == IF a = "mips" THEN MipsBranches \cup {"j", "jal"} ELSE RvBranches \cup {"jal"}
KnownOps(a) == IF a = "mips" THEN DOMAIN R_TYPE \cup DOMAIN MIPS_OPCODES ELSE DOMAIN RV_OPCODES

\* the immediate read back from the documented bit positions of a B-type
\* and of a J-type word, sign-extended
DecodeB(w) ==
  2 * FieldOf(w, 8, 4) + 32 * FieldOf(w, 25, 6) + 2048 * BitAt(w, 7) + 4096 * BitAt(w, 31)
  - 8192 * BitAt(w, 31)

DecodeJ(w) ==
  2 * FieldOf(w, 21, 10) + 2048 * BitAt(w, 20) + 4096 * FieldOf(w, 12, 8) + 1048576 * BitAt(w, 31)
  - 2097152 * BitAt(w, 31)

FitsB(off) == -4096 <= off /\ off <= 4094 /\ off % 2 = 0
FitsJ(off) == -1048576 <= off /\ off <= 1048574 /\ off % 2 = 0

(***************************************************************************)
(* C1                                                                      *)
(***************************************************************************)
\* C1 (as stated): after a successful assembly, in both assemblers, the
\* table entry of every label is the byte address 4 * k, k the number of
\* canonical instructions before the label's definition.
C1_LabelIsByteAddress ==
  Assembled =>
    \A name \in DOMAIN labels : labels[name] = 4 * InstrsBefore(arch, lines, Len(lines), name)

AddressUnit(a) == IF a = "mips" THEN 1 ELSE 4

\* C1 (amended): after a successful assembly the table entry of every label
\* is 4 * k in the RISC-V assembler and the word index k in the MIPS
\* assembler, k the number of canonical instructions before the label's
\* (last) definition, every instruction of a multi-instruction li counted.
C1_LabelIsInstructionPosition ==
  Assembled =>
    /\ DOMAIN labels = Defined(lines, Len(lines))
    /\ \A name \in DOMAIN labels :
         labels[name] = AddressUnit(arch) * InstrsBefore(arch, lines, Len(lines), name)

\* a label defined right after a two-instruction li, and one at the end
C1_Witness ==
  /\ Assembled
  /\ \E name \in DOMAIN labels :
       LET d == LastDef(lines, Len(lines), name)
       IN  d > 1 /\ lines[d - 1].op = "li" /\ ExpansionCount(arch, lines[d - 1]) = 2
  /\ \E name \in DOMAIN labels : labels[name] = AddressUnit(arch) * Len(code_lines)
  /\ Len(code_lines) > 0

(***************************************************************************)
(* C2                                                                      *)
(***************************************************************************)
\* C2: after a successful assembly there is one output word per canonical
\* instruction of the expanded program (not per source line), and the k-th
\* word is the encoding of the k-th canonical instruction; the written file
\* holds the same words.
C2_OneWordPerCanonicalInstruction ==
  Assembled =>
    /\ Len(binary_output) = CanonCount(arch, lines, Len(lines))
    /\ Len(binary_output) = Len(code_lines)
    /\ \A k \in 1..Len(code_lines) :
         LET r == Encode(arch, code_lines[k], k - 1, 4 * (k - 1), labels)
         IN  r.ok /\ binary_output[k] = r.word
    /\ coe.exists => coe.words = binary_output

C2_Witness ==
  /\ phase = "written"
  /\ Len(coe.words) > Len(lines)
  /\ \E k \in 1..Len(lines) : lines[k].op = ""
  /\ coe.words[1] # coe.words[2]

(***************************************************************************)
(* C3                                                                      *)
(***************************************************************************)
\* C3: a statement whose mnemonic is neither a pseudo-instruction nor in the
\* opcode tables of the target is fatal: no word is emitted for it and no
\* word list is returned or written.
C3_UnknownMnemonicIsFatal ==
  \A k \in 1..Len(code_lines) :
    code_lines[k].op \notin KnownOps(arch) => Len(binary_output) < k /\ ~Assembled

(***************************************************************************)
(* C4                                                                      *)
(***************************************************************************)
\* C4: once pass 1 has read a second definition of a label, the run is in
\* the error state and has no output words.
C4_DuplicateLabelIsFatal ==
  (\E j, k \in 1..idx : j < k /\ lines[j].lab # "" /\ lines[j].lab = lines[k].lab)
    => phase = "error" /\ binary_output = <<>>

(***************************************************************************)
(* C5                                                                      *)
(***************************************************************************)
RefersUndefined(a, src, ins) ==
  /\ ins.op \in TargetOps(a)
  /\ ins.tgt \notin Defined(src, Len(src))
  /\ ~IsNumeric(ins.tgt)

\* C5: a branch or jump whose target is neither a label of the program nor
\* a numeric literal stops the run: no word is emitted for it or after it,
\* the word list is never returned and no file is written.
C5_UndefinedLabelAborts ==
  \A k \in 1..Len(code_lines) :
    RefersUndefined(arch, lines, code_lines[k]) =>
      /\ i < k
      /\ Len(binary_output) < k
      /\ ~Assembled
      /\ ~coe.exists

\* the run has stopped at an undefined reference after encoding the
\* instructions before it
C5_Witness ==
  /\ phase = "error"
  /\ \E k \in 2..Len(code_lines) :
       RefersUndefined(arch, lines, code_lines[k]) /\ Len(binary_output) = k - 1 /\ i = k - 1
  /\ ~coe.exists

(***************************************************************************)
(* C6                                                                      *)
(***************************************************************************)
\* C6: the run never leaves pass 1 before every source line is expanded
\* and every label recorded, never returns to pass 1, emits no word in
\* pass 1, and never changes the label table or the canonical instruction
\* list once pass 1 is over.
C6_PassesAreSequential ==
  [][ /\ phase' \in {"pass2", "returned", "written"} =>
           idx' = Len(lines') /\ DOMAIN labels' = Defined(lines', Len(lines'))
      /\ phase' = "pass1" => binary_output' = <<>>
      /\ phase # "pass1" =>
           phase' # "pass1" /\ labels' = labels /\ code_lines' = code_lines
      /\ binary_output' # binary_output => phase = "pass2" ]_vars

\* a reference to a label defined later in the file has been encoded
C6_Witness ==
  /\ phase = "pass2"
  /\ \E k \in 1..Len(binary_output) :
       /\ code_lines[k].tgt \in DOMAIN labels
       /\ labels[code_lines[k].tgt] > AddressUnit(arch) * (k - 1)

(***************************************************************************)
(* C7                                                                      *)
(***************************************************************************)
\* C7: in the RISC-V assembler the immediate read back from the scrambled
\* bit positions of every emitted branch and jal word whose target is a
\* label is label address - instruction address, whenever the offset fits.
C7_RvOffsetReadBack ==
  arch = "riscv" =>
    \A k \in 1..Len(binary_output) :
      LET ins == code_lines[k]
          off == labels[ins.tgt] - 4 * (k - 1)
      IN  ins.tgt \in DOMAIN labels =>
            /\ ins.op \in RvBranches /\ FitsB(off) => DecodeB(binary_output[k]) = off
            /\ ins.op = "jal" /\ FitsJ(off) => DecodeJ(binary_output[k]) = off

(***************************************************************************)
(* C8                                                                      *)
(***************************************************************************)
\* C8: in the MIPS assembler the low 16 bits of the word of a beq, blez or
\* bltz at canonical index k - 1 whose target is a label bound to canonical
\* index t are (t - k) modulo 2^16, t counted after expansion.
C8_MipsBranchWordOffset ==
  arch = "mips" =>
    \A k \in 1..Len(binary_output) :
      LET ins == code_lines[k]
      IN  ins.op \in MipsBranches /\ ins.tgt \in Defined(lines, Len(lines)) =>
            FieldOf(binary_output[k], 0, 16)
              = (InstrsBefore(arch, lines, Len(lines), ins.tgt) - k) % 65536

\* a branch over a two-instruction li to a label behind it
C8_Witness ==
  /\ arch = "mips"
  /\ Assembled
  /\ \E k \in 1..(Len(code_lines) - 2) :
       /\ code_lines[k].op = "beq"
       /\ code_lines[k + 1].op = "lui" /\ code_lines[k + 2].op = "ori"
       /\ code_lines[k].tgt \in DOMAIN labels /\ labels[code_lines[k].tgt] = k + 2
       /\ FieldOf(binary_output[k], 0, 16) = 2

(***************************************************************************)
(* C9                                                                      *)
(***************************************************************************)
\* C9: in the MIPS assembler the pass-1 step on "li rd, imm" appends
\* exactly addi rd,$0,imm when -32768 <= imm <= 32767; otherwise it appends
\* lui rd,upper16, followed by ori rd,rd,lower16 exactly when lower16 is not
\* zero, and (upper16 << 16) | lower16 is imm modulo 2^32.
C9_MipsLiExpansion ==
  [][ (arch = "mips" /\ phase = "pass1" /\ idx < Len(lines) /\ lines[idx + 1].op = "li") =>
        LET st == lines[idx + 1]
            rd == st.regs[1]
            new == SubSeq(code_lines', Len(code_lines) + 1, Len(code_lines'))
        IN  IF -32768 <= st.imm /\ st.imm <= 32767
            THEN new = <<Instr("addi", <<rd, "0">>, st.imm, "")>>
            ELSE LET lower16 == IF Len(new) = 2 THEN new[2].imm ELSE 0
                     upper16 == new[1].imm
                 IN  /\ Len(new) \in {1, 2}
                     /\ new[1].op = "lui" /\ new[1].regs = <<rd>>
                     /\ Len(new) = 2 => new[2].op = "ori" /\ new[2].regs = <<rd, rd>>
                     /\ Len(new) = 2 <=> FieldOf(PyInt(st.imm), 0, 16) # 0
                     /\ upper16 \in 0..65535 /\ lower16 \in 0..65535
                     /\ BitOr(Shl(PyInt(upper16), 16), PyInt(lower16)) = MaskLow(PyInt(st.imm), 32)
    ]_vars

\* li t0, 100000 has become lui t0,1 ; ori t0,t0,34464 and a li with zero
\* low half has become a single lui
C9_Witness ==
  /\ arch = "mips"
  /\ \E k \in 1..(Len(code_lines) - 1) :
       /\ code_lines[k] = Instr("lui", <<"t0">>, 1, "")
       /\ code_lines[k + 1] = Instr("ori", <<"t0", "t0">>, 34464, "")
  /\ \E k \in 1..Len(lines) : lines[k].op = "li" /\ lines[k].imm = 65536
  /\ Assembled /\ Len(code_lines) = 3

(***************************************************************************)
(* C10                                                                     *)
(***************************************************************************)
\* C10: every emitted word is a 32-bit unsigned value and prints as exactly
\* 8 hexadecimal digits.
C10_WordsAre32Bit ==
  \A k \in 1..Len(binary_output) :
    /\ binary_output[k].s = 0
    /\ Len(binary_output[k].b) <= 32
    /\ format_08x_len(binary_output[k]) = 8

====
